---------------------------- MODULE Spec2Model ----------------------------
(***************************************************************************)
(* life_helper: the recurrence / due-today evaluator and the completion    *)
(* ledger of app/services/crud.py, over the tables of app/models/models.py *)
(* and one SQLAlchemy session (autoflush off, app/database/database.py).   *)
(*                                                                         *)
(* Time is counted in hours since 2024-01-29 00:00 UTC, a Monday.  A       *)
(* datetime is such a number, a date is the number of whole days since     *)
(* that Monday.  A string is a sequence of one-character strings, so that  *)
(* joining, splitting and the substring test are computed and not assumed. *)
(***************************************************************************)
EXTENDS Integers, Sequences, FiniteSets, TLC

VARIABLES
    now,          \* the clock read by datetime.utcnow(), in hours
    users,        \* table users: id -> row
    tasks,        \* table tasks: id -> row (committed)
    completions,  \* table task_completions: a set of rows (committed)
    dirty,        \* the open session's unflushed Task.completed assignments
    last_op,      \* the call made last, its arguments and what it returned
    bot           \* the running bot: the callbacks registered on its job queue

vars == <<now, users, tasks, completions, dirty, last_op, bot>>

-----------------------------------------------------------------------------
(* Bounds of the model *)

MaxUsers == 1
MaxTasks == 2
MaxCompletions == 2
MaxDay == 1
MaxDaysSelected == 2
MaxCreatedDay == 6
MaxSpanDays == 32
MaxYears == 1
BotStartDay == 2
MaxBotDay == 3
CleanupYear == 2026

-----------------------------------------------------------------------------
(* Values *)

\* Column(..., nullable=True) holding NULL / Python None, for a datetime
NoneTime == -1

\* NULL in the String column days_of_week: no string of characters equals it
NoneStr == <<"None">>

\* The members of Frequency that crud.py, bot.py and the tests name.  The
\* enum file itself (app/enums/frequency.py) declares EVERYDAY, WEEKLY and
\* MONTHLY among its members, and neither ONCE nor SPECIFIC_DAYS.
Frequency == {"ONCE", "EVERYDAY", "WEEKLY", "MONTHLY", "SPECIFIC_DAYS"}

DAYS_OF_WEEK ==
    << <<"M","O","N">>, <<"T","U","E">>, <<"W","E","D">>, <<"T","H","U">>,
       <<"F","R","I">>, <<"S","A","T">>, <<"S","U","N">> >>

EmptyMap == [x \in {} |-> TRUE]

-----------------------------------------------------------------------------
(* The calendar: datetime.date(), .weekday(), .day, .month, .year,          *)
(* strftime('%a') and SQLite's date() / strftime('%w') / strftime('%d')     *)

\* datetime.date(): the calendar day an instant falls on
DateOf(ts) == ts \div 24

IsLeap(y) == (y % 4 = 0 /\ y % 100 # 0) \/ y % 400 = 0

DaysInMonth(y, m) ==
    IF m = 2 THEN (IF IsLeap(y) THEN 29 ELSE 28)
    ELSE IF m \in {4, 6, 9, 11} THEN 30 ELSE 31

RECURSIVE CivilWalk(_, _, _)
\* the civil date o days after the first day of month m of year y
CivilWalk(y, m, o) ==
    IF o < DaysInMonth(y, m)
    THEN [year |-> y, month |-> m, day |-> o + 1]
    ELSE CivilWalk(IF m = 12 THEN y + 1 ELSE y,
                   IF m = 12 THEN 1 ELSE m + 1,
                   o - DaysInMonth(y, m))

\* day 0 is 2024-01-29, the 29th day of January 2024
Civil(d) == CivilWalk(2024, 1, d + 28)

\* date.weekday(): Monday is 0, Sunday is 6; day 0 is a Monday
PyWeekday(d) == d % 7

\* SQLite strftime('%w', ...): Sunday is 0, Saturday is 6; day 0 is a Monday
SqliteStrftimeW(d) == (d + 1) % 7

\* SQLite cast(strftime('%d', ...) as Integer): the day of the month
SqliteStrftimeD(d) == Civil(d).day

\* strftime('%a').upper(): MON, TUE, ...
StrftimeA(d) == DAYS_OF_WEEK[PyWeekday(d) + 1]

-----------------------------------------------------------------------------
(* Strings *)

\* Python's `needle in hay` on strings, SQL's hay LIKE '%' || needle || '%'
Contains(hay, needle) ==
    \E i \in 1..(Len(hay) - Len(needle) + 1) :
        SubSeq(hay, i, i + Len(needle) - 1) = needle

RECURSIVE JoinFrom(_, _)
\* ",".join of the labels whose DAYS_OF_WEEK positions are in S, from position i on
JoinFrom(i, S) ==
    IF i > Len(DAYS_OF_WEEK) THEN <<>>
    ELSE IF i \notin S THEN JoinFrom(i + 1, S)
    ELSE IF \E j \in S : j > i
         THEN DAYS_OF_WEEK[i] \o <<",">> \o JoinFrom(i + 1, S)
         ELSE DAYS_OF_WEEK[i]

\* ",".join(sorted(list(selected_days), key=DAYS_OF_WEEK.index))
JoinDays(S) == JoinFrom(1, S)

\* the day sets a caller chooses from: positions in DAYS_OF_WEEK
DaySelections ==
    {S \in SUBSET (1..Len(DAYS_OF_WEEK)) : S # {} /\ Cardinality(S) <= MaxDaysSelected}

\* create_task as the callers use it: a frequency, and for SPECIFIC_DAYS the
\* joined labels of one of the selections, for the others None
TaskInputs(selections) ==
    {<<f, NoneStr>> : f \in Frequency \ {"SPECIFIC_DAYS"}}
        \cup {<<"SPECIFIC_DAYS", JoinDays(S)>> : S \in selections}

-----------------------------------------------------------------------------
(* Rows and the session *)

SetMax(S) == CHOOSE x \in S : \A y \in S : y <= x

\* an INTEGER PRIMARY KEY without AUTOINCREMENT: one more than the largest rowid
NextId(ids) == IF ids = {} THEN 1 ELSE SetMax(ids) + 1

\* The columns that no operation below reads are left out of the rows: a
\* task's title, reminder_time and points, a user's points.
UserRow(telegram_id) == [telegram_id |-> telegram_id, last_notified |-> NoneTime]

TaskRow(user_id, frequency, days_of_week, created_at) ==
    [user_id |-> user_id, completed |-> FALSE, created_at |-> created_at,
     frequency |-> frequency, days_of_week |-> days_of_week,
     last_completed |-> NoneTime]

CompletionRow(id, task_id, completed_at) ==
    [id |-> id, task_id |-> task_id, completed_at |-> completed_at]

\* db.commit(): the flush writes the pending Task.completed assignments
Flush(tbl, pending) ==
    [i \in DOMAIN tbl |->
        IF i \in DOMAIN pending
        THEN [tbl[i] EXCEPT !.completed = pending[i]]
        ELSE tbl[i]]

\* the pending assignments that a flush of `pending` over `tbl` would still write
Pending(tbl, pending) ==
    LET keep == {i \in DOMAIN pending \cap DOMAIN tbl : pending[i] # tbl[i].completed}
    IN  [i \in keep |-> pending[i]]

\* a call: its name, its argument, when it was made, whether it found its row,
\* the rows and the number it returned
Op(name, arg, ok, ret, n) ==
    [name |-> name, arg |-> arg, at |-> now, ok |-> ok, ret |-> ret, n |-> n]

-----------------------------------------------------------------------------
(* The completion ledger: queries *)

\* the query without the conversion to a date: the timestamps are compared
GetTaskCompletionForDay_NoDate(task_id, target_date) ==
    {c \in completions : c.task_id = task_id /\ c.completed_at = target_date}

\* the query without the filter on the task
GetTaskCompletionForDay_AnyTask(task_id, target_date) ==
    {c \in completions : DateOf(c.completed_at) = DateOf(target_date)}

\* the orders in which a query can return the rows S: each row once
RowSeqs(S) ==
    {s \in [1..Cardinality(S) -> S] : \A i, j \in DOMAIN s : i # j => s[i] # s[j]}

Min(a, b) == IF a <= b THEN a ELSE b

\* the history ordered by completed_at ascending
History_OldestFirst(task_id, limit) ==
    LET rows == {c \in completions : c.task_id = task_id}
        ordered == {s \in RowSeqs(rows) :
                       \A i \in 1..(Len(s) - 1) : s[i].completed_at <= s[i + 1].completed_at}
    IN  {SubSeq(s, 1, Min(limit, Len(s))) : s \in ordered}

\* get_task_completions: filter(task_id), order_by(desc(completed_at)),
\* limit(limit).  Rows with equal timestamps come in either order, so the
\* query has a set of possible results.
History(task_id, limit) ==
    LET rows == {c \in completions : c.task_id = task_id}
        ordered == {s \in RowSeqs(rows) :
                       \A i \in 1..(Len(s) - 1) : s[i].completed_at >= s[i + 1].completed_at}
    IN  {SubSeq(s, 1, Min(limit, Len(s))) : s \in ordered}

GetTaskCompletions(task_id, limit) ==
    /\ \E ret \in History(task_id, limit) :
            last_op' = Op("get_task_completions", <<task_id, limit>>, TRUE, ret, Len(ret))
    /\ UNCHANGED <<bot, now, users, tasks, completions, dirty>>

\* get_task_completion_for_day: the rows of the task whose date(completed_at)
\* is the target's date, newest first, the first of them or None ({})
GetTaskCompletionForDay(task_id, target_date) ==
    LET target_day == DateOf(target_date)
        rows == {c \in completions :
                    /\ c.task_id = task_id
                    /\ DateOf(c.completed_at) = target_day}
    IN  IF rows = {} THEN {}
        ELSE {CHOOSE c \in rows : \A o \in rows : o.completed_at <= c.completed_at}

\* is_task_completed_today
IsTaskCompletedToday(task_id) == GetTaskCompletionForDay(task_id, now) # {}

-----------------------------------------------------------------------------
(* The recurrence evaluator: get_tasks_due_today *)

\* an EVERYDAY task dropped once it has been completed
EverydayClause_UntilCompleted(t) ==
    t.frequency = "EVERYDAY" /\ t.last_completed = NoneTime

EverydayClause(t) == t.frequency = "EVERYDAY"

\* the weekday string compared as a whole instead of searched
SpecificDaysClause_Equal(t, today) ==
    /\ t.frequency = "SPECIFIC_DAYS"
    /\ t.days_of_week = StrftimeA(DateOf(today))

SpecificDaysClause(t, today) ==
    /\ t.frequency = "SPECIFIC_DAYS"
    /\ t.days_of_week # NoneStr
    /\ Contains(t.days_of_week, StrftimeA(DateOf(today)))

\* Python's weekday number compared with SQLite's without the adjustment
WeeklyClause_NoAdjust(t, today) ==
    /\ t.frequency = "WEEKLY"
    /\ SqliteStrftimeW(DateOf(t.created_at)) = PyWeekday(DateOf(today))

WeeklyClause(t, today) ==
    LET adjusted_weekday == (PyWeekday(DateOf(today)) + 1) % 7
    IN  /\ t.frequency = "WEEKLY"
        /\ SqliteStrftimeW(DateOf(t.created_at)) = adjusted_weekday

\* a month taken as 30 days from the creation
MonthlyClause_ThirtyDays(t, today) ==
    /\ t.frequency = "MONTHLY"
    /\ (DateOf(today) - DateOf(t.created_at)) % 30 = 0

MonthlyClause(t, today) ==
    /\ t.frequency = "MONTHLY"
    /\ SqliteStrftimeD(DateOf(t.created_at)) = Civil(DateOf(today)).day

\* the filter of the query: the user's rows that one of the clauses admits
DueFilter(t, user_id, today) ==
    /\ t.user_id = user_id
    /\ \/ EverydayClause(t)
       \/ SpecificDaysClause(t, today)
       \/ WeeklyClause(t, today)
       \/ MonthlyClause(t, today)

\* the rows the query returns, each with completed set to is_task_completed_today
DueToday(user_id) ==
    {[id |-> i, completed |-> IsTaskCompletedToday(i)] :
        i \in {j \in DOMAIN tasks : DueFilter(tasks[j], user_id, now)}}

GetTasksDueToday(user_id) ==
    LET ret == DueToday(user_id)
        set == [i \in DOMAIN dirty \cup {r.id : r \in ret} |->
                   IF \E r \in ret : r.id = i
                   THEN (CHOOSE r \in ret : r.id = i).completed
                   ELSE dirty[i]]
    IN  /\ dirty' = Pending(tasks, set)
        /\ last_op' = Op("get_tasks_due_today", user_id, TRUE, ret, Cardinality(ret))
        /\ UNCHANGED <<bot, now, users, tasks, completions>>

-----------------------------------------------------------------------------
(* The other operations of crud.py *)

CreateUser(telegram_id) ==
    /\ \A u \in DOMAIN users : users[u].telegram_id # telegram_id
    /\ NextId(DOMAIN users) <= MaxUsers
    /\ users' = [i \in DOMAIN users \cup {NextId(DOMAIN users)} |->
                    IF i \in DOMAIN users THEN users[i] ELSE UserRow(telegram_id)]
    /\ tasks' = Flush(tasks, dirty)
    /\ dirty' = EmptyMap
    /\ last_op' = Op("create_user", NextId(DOMAIN users), TRUE, {}, 0)
    /\ UNCHANGED <<bot, now, completions>>

\* the callers pass the id of a user they have looked up or created
CreateTask(user_id, frequency, days_of_week) ==
    LET id == NextId(DOMAIN tasks)
        flushed == Flush(tasks, dirty)
    IN  /\ user_id \in DOMAIN users
        /\ id <= MaxTasks
        /\ tasks' = [i \in DOMAIN tasks \cup {id} |->
                        IF i \in DOMAIN tasks THEN flushed[i]
                        ELSE TaskRow(user_id, frequency, days_of_week, now)]
        /\ dirty' = EmptyMap
        /\ last_op' = Op("create_task", id, TRUE, {}, 0)
        /\ UNCHANGED <<bot, now, users, completions>>

\* the completion that writes the event and leaves last_completed as it is
CompleteTask_NoStamp(task_id) ==
    IF task_id \in DOMAIN tasks
    THEN LET id == NextId({c.id : c \in completions})
             completion == CompletionRow(id, task_id, now)
         IN  /\ id <= MaxCompletions
             /\ completions' = completions \cup {completion}
             /\ tasks' = Flush(tasks, dirty)
             /\ dirty' = EmptyMap
             /\ last_op' = Op("complete_task", task_id, TRUE, {}, 0)
             /\ UNCHANGED <<bot, now, users>>
    ELSE /\ last_op' = Op("complete_task", task_id, FALSE, {}, 0)
         /\ UNCHANGED <<bot, now, users, tasks, completions, dirty>>

\* the commit writes the event, last_completed and whatever the session holds
\* unflushed; the function itself assigns nothing to Task.completed
CompleteTask(task_id) ==
    IF task_id \in DOMAIN tasks
    THEN LET id == NextId({c.id : c \in completions})
             completion == CompletionRow(id, task_id, now)
         IN  /\ id <= MaxCompletions
             /\ completions' = completions \cup {completion}
             /\ tasks' = [Flush(tasks, dirty) EXCEPT
                             ![task_id].last_completed = completion.completed_at]
             /\ dirty' = EmptyMap
             /\ last_op' = Op("complete_task", task_id, TRUE, {}, 0)
             /\ UNCHANGED <<bot, now, users>>
    ELSE /\ last_op' = Op("complete_task", task_id, FALSE, {}, 0)
         /\ UNCHANGED <<bot, now, users, tasks, completions, dirty>>

\* the delete without the cascade to the task's completions
DeleteTask_NoCascade(task_id) ==
    IF task_id \in DOMAIN tasks
    THEN LET flushed == Flush(tasks, dirty)
         IN  /\ tasks' = [i \in DOMAIN tasks \ {task_id} |-> flushed[i]]
             /\ dirty' = EmptyMap
             /\ last_op' = Op("delete_task", task_id, TRUE, {}, 0)
             /\ UNCHANGED <<bot, now, users, completions>>
    ELSE /\ last_op' = Op("delete_task", task_id, FALSE, {}, 0)
         /\ UNCHANGED <<bot, now, users, tasks, completions, dirty>>

DeleteTask(task_id) ==
    IF task_id \in DOMAIN tasks
    THEN LET flushed == Flush(tasks, dirty)
         IN  /\ tasks' = [i \in DOMAIN tasks \ {task_id} |-> flushed[i]]
             \* relationship(cascade="all, delete-orphan"): the session deletes
             \* the task's completions with it
             /\ completions' = {c \in completions : c.task_id # task_id}
             /\ dirty' = EmptyMap
             /\ last_op' = Op("delete_task", task_id, TRUE, {}, 0)
             /\ UNCHANGED <<bot, now, users>>
    ELSE /\ last_op' = Op("delete_task", task_id, FALSE, {}, 0)
         /\ UNCHANGED <<bot, now, users, tasks, completions, dirty>>

\* the filter with completed_at <= cutoff_date
DeleteOldCompletions_Inclusive(days_to_keep) ==
    LET cutoff_date == now - days_to_keep * 24
        old == {c \in completions : c.completed_at <= cutoff_date}
    IN  /\ completions' = completions \ old
        /\ tasks' = Flush(tasks, dirty)
        /\ dirty' = EmptyMap
        /\ last_op' = Op("delete_old_completions", days_to_keep, TRUE, {}, Cardinality(old))
        /\ UNCHANGED <<bot, now, users>>

DeleteOldCompletions(days_to_keep) ==
    LET cutoff_date == now - days_to_keep * 24
        old == {c \in completions : c.completed_at < cutoff_date}
    IN  /\ completions' = completions \ old
        /\ tasks' = Flush(tasks, dirty)
        /\ dirty' = EmptyMap
        /\ last_op' = Op("delete_old_completions", days_to_keep, TRUE, {}, Cardinality(old))
        /\ UNCHANGED <<bot, now, users>>

\* db.close(): what the session has not committed is dropped
CloseSession ==
    /\ dirty # EmptyMap
    /\ dirty' = EmptyMap
    /\ last_op' = Op("close", 0, TRUE, {}, 0)
    /\ UNCHANGED <<bot, now, users, tasks, completions>>

\* time passes between two calls, up to the day max_day
Advance(hours, max_day) ==
    /\ DateOf(now + hours) <= max_day
    /\ now' = now + hours
    /\ UNCHANGED <<bot, users, tasks, completions, dirty, last_op>>

-----------------------------------------------------------------------------
(* The reset sweep: reset_recurring_tasks *)

RECURSIVE Split(_)
\* str.split(','): the fields between the commas, in order
Split(s) ==
    IF \A i \in 1..Len(s) : s[i] # ","
    THEN <<s>>
    ELSE LET i == CHOOSE k \in 1..Len(s) :
                      s[k] = "," /\ \A j \in 1..(k - 1) : s[j] # ","
         IN  <<SubSeq(s, 1, i - 1)>> \o Split(SubSeq(s, i + 1, Len(s)))

\* Python's `x in lst` on a list
InList(x, lst) == \E i \in 1..Len(lst) : lst[i] = x

\* a task completed today reset as well
ResetEveryday_SameDay(last_completed_date, today) == last_completed_date <= today

\* EVERYDAY: completed on a previous day
ResetEveryday(last_completed_date, today) == last_completed_date < today

\* a week taken as more than seven days
ResetWeekly_Strict(last_completed_date, today) == today - last_completed_date > 7

\* WEEKLY: (today - last_completed_date).days >= 7
ResetWeekly(last_completed_date, today) == today - last_completed_date >= 7

\* the months compared without the years
ResetMonthly_MonthOnly(last_completed_date, today) ==
    Civil(last_completed_date).month # Civil(today).month

\* MONTHLY: completed in another month, or in another year
ResetMonthly(last_completed_date, today) ==
    \/ Civil(last_completed_date).month # Civil(today).month
    \/ Civil(last_completed_date).year # Civil(today).year

\* the weekday of the sweep not looked at
ResetSpecificDays_AnyDay(days_of_week, last_completed_date, today) ==
    last_completed_date < today

\* SPECIFIC_DAYS: completed on a previous day, and today's label is one of
\* the fields of a days_of_week that is neither None nor empty
ResetSpecificDays(days_of_week, last_completed_date, today) ==
    /\ last_completed_date < today
    /\ days_of_week # NoneStr
    /\ days_of_week # <<>>
    /\ InList(StrftimeA(today), Split(days_of_week))

\* a task without last_completed left as it is
ShouldReset_NoneKept(t, today) ==
    /\ t.last_completed # NoneTime
    /\ LET last_completed_date == DateOf(t.last_completed)
       IN  CASE t.frequency = "EVERYDAY" -> ResetEveryday(last_completed_date, today)
             [] t.frequency = "WEEKLY" -> ResetWeekly(last_completed_date, today)
             [] t.frequency = "MONTHLY" -> ResetMonthly(last_completed_date, today)
             [] t.frequency = "SPECIFIC_DAYS" ->
                    ResetSpecificDays(t.days_of_week, last_completed_date, today)
             [] OTHER -> FALSE

\* should_reset of the loop body, for the task t on the date today
ShouldReset(t, today) ==
    IF t.last_completed = NoneTime
    THEN TRUE
    ELSE LET last_completed_date == DateOf(t.last_completed)
         IN  CASE t.frequency = "EVERYDAY" -> ResetEveryday(last_completed_date, today)
               [] t.frequency = "WEEKLY" -> ResetWeekly(last_completed_date, today)
               [] t.frequency = "MONTHLY" -> ResetMonthly(last_completed_date, today)
               [] t.frequency = "SPECIFIC_DAYS" ->
                      ResetSpecificDays(t.days_of_week, last_completed_date, today)
               [] OTHER -> FALSE

\* the query without the exclusion of ONCE
CompletedRecurringTasks_AllFrequencies(tbl) ==
    {i \in DOMAIN tbl : tbl[i].completed = TRUE}

\* completed_recurring_tasks: the stored rows with completed true, ONCE aside
CompletedRecurringTasks(tbl) ==
    {i \in DOMAIN tbl : tbl[i].completed = TRUE /\ tbl[i].frequency # "ONCE"}

\* the rows the loop assigns completed = False to
ResetSet(tbl, today) ==
    {i \in CompletedRecurringTasks(tbl) : ShouldReset(tbl[i], today)}

\* the scanned rows counted instead of the reset ones
ResetCount_Scanned(tbl, today) == Cardinality(CompletedRecurringTasks(tbl))

\* reset_count
ResetCount(tbl, today) == Cardinality(ResetSet(tbl, today))

\* the assignments dropped: no commit
CommitReset_NoCommit(tbl, pending, reset) == tbl

\* db.commit() after the loop: the flush writes completed = False for the
\* reset rows, and whatever else the session holds unflushed
CommitReset(tbl, pending, reset) ==
    Flush(tbl, [i \in DOMAIN pending \cup reset |->
                   IF i \in reset THEN FALSE ELSE pending[i]])

ResetRecurringTasks ==
    LET today == DateOf(now)
        reset_count == ResetCount(tasks, today)
    IN  /\ IF reset_count > 0
           THEN /\ tasks' = CommitReset(tasks, dirty, ResetSet(tasks, today))
                /\ dirty' = EmptyMap
           ELSE UNCHANGED <<tasks, dirty>>
        \* arg: whether this sweep is the first at this instant (1) or follows
        \* another sweep with nothing in between (2)
        /\ last_op' = Op("reset_recurring_tasks",
                         IF last_op.name = "reset_recurring_tasks" /\ last_op.at = now
                         THEN 2 ELSE 1,
                         TRUE, {}, reset_count)
        /\ UNCHANGED <<bot, now, users, completions>>

-----------------------------------------------------------------------------
(* The program: any sequence of calls on one session, from an empty database *)

TelegramIds == 1..MaxUsers
UserIds == 1..MaxUsers
TaskIds == 1..MaxTasks
AdvanceHours == {12, 24}
RetentionDays == {0, 365}

\* the selections among the weekdays that the clock reaches
ReachedDaySelections == {S \in DaySelections : S \subseteq 1..(MaxDay + 1)}

\* a process that has not started the bot: nothing is registered
NoBot == [jobs |-> EmptyMap, user_data |-> EmptyMap, sent |-> {}, failed |-> {},
          listed |-> {}, timers |-> {}, chosen |-> EmptyMap]

NoOp == [name |-> "init", arg |-> 0, at |-> 0, ok |-> TRUE, ret |-> {}, n |-> 0]

Init ==
    /\ now = 0
    /\ users = EmptyMap
    /\ tasks = EmptyMap
    /\ completions = {}
    /\ dirty = EmptyMap
    /\ last_op = NoOp
    /\ bot = NoBot

Next ==
    \/ \E telegram_id \in TelegramIds : CreateUser(telegram_id)
    \/ \E user_id \in UserIds, in \in TaskInputs(ReachedDaySelections) : CreateTask(user_id, in[1], in[2])
    \/ \E user_id \in UserIds : GetTasksDueToday(user_id)
    \/ \E task_id \in TaskIds : CompleteTask(task_id)
    \/ \E task_id \in TaskIds : DeleteTask(task_id)
    \/ \E days_to_keep \in RetentionDays : DeleteOldCompletions(days_to_keep)
    \/ CloseSession
    \/ \E hours \in AdvanceHours : Advance(hours, MaxDay)

Spec == Init /\ [][Next]_vars

-----------------------------------------------------------------------------
(* The ledger alone: the calls that write or prune task_completions, on a   *)
(* database that holds one user.  The ledger's queries read no frequency,   *)
(* so the tasks are created with one                                        *)

LedgerFrequencies == {"WEEKLY"}

InitLedger ==
    /\ now = 0
    /\ users = [u \in {1} |-> UserRow(1)]
    /\ tasks = EmptyMap
    /\ completions = {}
    /\ dirty = EmptyMap
    /\ last_op = NoOp
    /\ bot = NoBot

NextLedger ==
    \/ \E frequency \in LedgerFrequencies : CreateTask(1, frequency, NoneStr)
    \/ \E task_id \in TaskIds : CompleteTask(task_id)
    \/ \E task_id \in TaskIds : DeleteTask(task_id)
    \/ \E days_to_keep \in RetentionDays : DeleteOldCompletions(days_to_keep)
    \/ \E hours \in AdvanceHours : Advance(hours, MaxDay)

SpecLedger == InitLedger /\ [][NextLedger]_vars

-----------------------------------------------------------------------------
(* The history of the ledger: on a database that holds one user with two   *)
(* tasks, completions are written, pruned with a retention of no, one or    *)
(* 365 days, and read back with get_task_completions                        *)

LedgerRetentionDays == {0, 1, 365}
HistoryLimits == {1, 30}

HistoryTasks == {1, 2}

InitHistory ==
    /\ now = 0
    /\ users = [u \in {1} |-> UserRow(1)]
    /\ tasks = [i \in HistoryTasks |-> TaskRow(1, "WEEKLY", NoneStr, now)]
    /\ completions = {}
    /\ dirty = EmptyMap
    /\ last_op = NoOp
    /\ bot = NoBot

NextHistory ==
    \/ \E task_id \in TaskIds : CompleteTask(task_id)
    \/ \E days_to_keep \in LedgerRetentionDays : DeleteOldCompletions(days_to_keep)
    \/ \E task_id \in TaskIds, limit \in HistoryLimits : GetTaskCompletions(task_id, limit)
    \/ \E hours \in AdvanceHours : Advance(hours, MaxDay)

SpecHistory == InitHistory /\ [][NextHistory]_vars

-----------------------------------------------------------------------------
(* The evaluator over the calendar: a database that holds one task of user  *)
(* 1, created on any day of a week, and a second user; it is read on any    *)
(* later day                                                                *)

CalUserIds == {1, 2}

CalTaskInputs == TaskInputs(DaySelections) \cup {<<"SPECIFIC_DAYS", NoneStr>>}

InitCal ==
    \E created \in 0..MaxCreatedDay, span \in 0..MaxSpanDays, years \in 0..MaxYears,
       in \in CalTaskInputs, done \in BOOLEAN :
        /\ now = (created + span + 366 * years) * 24
        /\ users = [u \in CalUserIds |-> UserRow(u)]
        \* done: the task was completed on the day it was created
        /\ tasks = [i \in {1} |->
                      [TaskRow(1, in[1], in[2], created * 24) EXCEPT
                          !.last_completed = IF done THEN created * 24 ELSE NoneTime]]
        /\ completions = IF done THEN {CompletionRow(1, 1, created * 24)} ELSE {}
        /\ dirty = EmptyMap
        /\ last_op = NoOp
        /\ bot = NoBot

NextCal ==
    \/ \E user_id \in CalUserIds : GetTasksDueToday(user_id)
    \/ \E task_id \in DOMAIN tasks : CompleteTask(task_id)
    \/ CloseSession

SpecCal == InitCal /\ [][NextCal]_vars

-----------------------------------------------------------------------------
(* The sweep over the calendar: a database that holds one task of user 1,   *)
(* of any frequency, flagged completed or not, last completed on a day of   *)
(* the first week or never, alone or beside a second, EVERYDAY task that    *)
(* was completed on the first day; the sweep runs on that day or on a later *)
(* one, on a session that holds nothing unflushed                           *)

\* the task that is in the table beside the first
OtherTask ==
    [TaskRow(1, "EVERYDAY", NoneStr, 0) EXCEPT !.completed = TRUE, !.last_completed = 0]

InitReset ==
    \E last \in -1..MaxCreatedDay, span \in 0..MaxSpanDays, years \in 0..MaxYears,
       late \in BOOLEAN, in \in CalTaskInputs, flag \in BOOLEAN, pair \in BOOLEAN :
        LET never == last = -1
            \* late: completed in the last hour of its day and swept in the
            \* first hour of the day; otherwise the other way round
            at == IF never THEN NoneTime ELSE last * 24 + (IF late THEN 23 ELSE 0)
            day == (IF never THEN 0 ELSE last) + span + 366 * years
        IN  /\ never => ~late
            /\ now = day * 24 + (IF late /\ span + years > 0 THEN 0 ELSE 23)
            /\ users = [u \in {1} |-> UserRow(1)]
            /\ tasks = [i \in (IF pair THEN {1, 2} ELSE {1}) |->
                          IF i = 1
                          THEN [TaskRow(1, in[1], in[2], 0) EXCEPT
                                   !.completed = flag, !.last_completed = at]
                          ELSE OtherTask]
            /\ completions =
                  (IF never THEN {} ELSE {CompletionRow(1, 1, at)})
                      \cup (IF pair THEN {CompletionRow(2, 2, 0)} ELSE {})
            /\ dirty = EmptyMap
            /\ last_op = NoOp
            /\ bot = NoBot

NextReset == ResetRecurringTasks

SpecReset == InitReset /\ [][NextReset]_vars

-----------------------------------------------------------------------------
(* The bot: bot.py.  Every handler and every job opens a session of its own *)
(* and closes it before it returns, so between two of them nothing is       *)
(* unflushed                                                                *)

\* timezone('Asia/Yekaterinburg'): five hours ahead of UTC all year
YekaterinburgOffset == 5

LocalDate(ts) == DateOf(ts + YekaterinburgOffset)

\* the callbacks that post_init hands to the job queue.  The reminders that
\* schedule_task_reminders adds read Task.reminder_time and write nothing.
ScheduledJobs == {"send_daily_reminders", "yearly_cleanup_job", "send_backup_reminders"}

\* the callbacks that the class defines for the job queue
JobCallbacks == ScheduledJobs \cup {"reset_tasks_job"}

Started == DOMAIN bot.jobs # {}

\* if task.reminder_time: the column is not NULL.  A row written without
\* the column holds NULL
HasReminder(task) ==
    /\ "reminder_time" \in DOMAIN task
    /\ task.reminder_time # "None"

\* schedule_task_reminders: one run_daily per task that has a reminder time,
\* its callback closed over the owner's telegram_id and the task's id
ScheduledReminders ==
    {<<users[tasks[t].user_id].telegram_id, t>> :
        t \in {i \in DOMAIN tasks : HasReminder(tasks[i])}}

\* post_init: each job is registered, none has run, and the reminders of the
\* tasks stored at this moment are scheduled
PostInit ==
    /\ ~Started
    /\ bot' = [bot EXCEPT !.jobs = [j \in ScheduledJobs |-> NoneTime],
                          !.timers = ScheduledReminders]
    /\ last_op' = Op("post_init", 0, TRUE, {}, 0)
    /\ UNCHANGED <<now, users, tasks, completions, dirty>>

\* a reply of the bot: the handler, the chat that called it, the id it was
\* given, the message it sent
Reply(name, chat_id, task_id, text) ==
    Op(name, <<chat_id, task_id>>, text \in {"done", "deleted", "registered"}, {text}, 0)

SetMin(S) == CHOOSE x \in S : \A y \in S : x <= y

\* the loop body with a message that lists every task due today, the
\* completed ones too
RemindUser_ListAll(st, user_id, backup, fails) ==
    LET user == st.users[user_id]
        tasks_today == DueToday(user_id)
        set == [i \in DOMAIN st.pending \cup {r.id : r \in tasks_today} |->
                   IF \E r \in tasks_today : r.id = i
                   THEN (CHOOSE r \in tasks_today : r.id = i).completed
                   ELSE st.pending[i]]
        incomplete_tasks_today == tasks_today
        notified_today ==
            /\ user.last_notified # NoneTime
            /\ LocalDate(user.last_notified) = LocalDate(now)
    IN  IF backup /\ notified_today THEN st
        ELSE IF incomplete_tasks_today # {} /\ user_id \in fails
        THEN [st EXCEPT !.pending = set, !.failed = @ \cup {user_id}]
        ELSE [users |-> [st.users EXCEPT ![user_id].last_notified = now],
              tasks |-> Flush(st.tasks, set),
              pending |-> EmptyMap,
              sent |-> IF incomplete_tasks_today # {}
                       THEN st.sent \cup {user_id} ELSE st.sent,
              failed |-> st.failed,
              listed |-> IF incomplete_tasks_today # {}
                         THEN st.listed \cup
                                  {<<user_id, r.id>> : r \in incomplete_tasks_today}
                         ELSE st.listed]

\* the body of the loop of the two reminder jobs for one user, on the job's
\* session st: the user is skipped (backup, notified today), or the due tasks
\* are read, and then either the message cannot be sent and the exception
\* skips the commit, or update_user_last_notified commits.  sent and failed
\* collect the users send_message reached and could not reach, listed the
\* tasks that the messages sent name, each with the user it went to
RemindUser(st, user_id, backup, fails) ==
    LET user == st.users[user_id]
        tasks_today == DueToday(user_id)
        set == [i \in DOMAIN st.pending \cup {r.id : r \in tasks_today} |->
                   IF \E r \in tasks_today : r.id = i
                   THEN (CHOOSE r \in tasks_today : r.id = i).completed
                   ELSE st.pending[i]]
        incomplete_tasks_today == {r \in tasks_today : ~r.completed}
        notified_today ==
            /\ user.last_notified # NoneTime
            /\ LocalDate(user.last_notified) = LocalDate(now)
    IN  IF backup /\ notified_today THEN st
        ELSE IF incomplete_tasks_today # {} /\ user_id \in fails
        THEN [st EXCEPT !.pending = set, !.failed = @ \cup {user_id}]
        ELSE [users |-> [st.users EXCEPT ![user_id].last_notified = now],
              tasks |-> Flush(st.tasks, set),
              pending |-> EmptyMap,
              sent |-> IF incomplete_tasks_today # {}
                       THEN st.sent \cup {user_id} ELSE st.sent,
              failed |-> st.failed,
              listed |-> IF incomplete_tasks_today # {}
                         THEN st.listed \cup
                                  {<<user_id, r.id>> : r \in incomplete_tasks_today}
                         ELSE st.listed]

RECURSIVE RemindUsers(_, _, _, _)
\* for user in users, in the order of the ids
RemindUsers(st, ids, backup, fails) ==
    IF ids = {} THEN st
    ELSE LET user_id == SetMin(ids)
         IN  RemindUsers(RemindUser(st, user_id, backup, fails),
                         ids \ {user_id}, backup, fails)

\* the database after a reminder job: what the loop committed; the finally
\* branch closes the session and drops the rest
AfterReminders(backup, fails) ==
    RemindUsers([users |-> users, tasks |-> tasks, pending |-> EmptyMap,
                 sent |-> {}, failed |-> {}, listed |-> {}],
                DOMAIN users, backup, fails)

\* the cleanup that prunes whenever the job queue runs it
CleanupPrunes_EveryFiring(today) == TRUE

\* if today.month == 1 and today.day == 1, today the date in Yekaterinburg
CleanupPrunes(today) == today.month = 1 /\ today.day = 1

\* when the job queue lets a callback run: run_daily once a day, run_monthly
\* once on the first of a month, run_repeating every six hours
JobDue(j) ==
    CASE j = "send_backup_reminders" -> TRUE
      [] j = "yearly_cleanup_job" ->
            Civil(LocalDate(now)).day = 1 /\ bot.jobs[j] < LocalDate(now)
      [] OTHER -> bot.jobs[j] < LocalDate(now)

\* the job queue runs a registered callback.  fails: the users that
\* send_message cannot reach during this run; bot.sent and bot.failed are
\* the users the last reminder job sent its message to and failed to send it
\* to
RunJob(j, fails) ==
    /\ j \in DOMAIN bot.jobs
    /\ JobDue(j)
    /\ dirty' = EmptyMap
    /\ UNCHANGED now
    /\ CASE j = "send_daily_reminders" ->
              LET end == AfterReminders(FALSE, fails)
              IN  /\ users' = end.users
                  /\ tasks' = end.tasks
                  /\ bot' = [bot EXCEPT !.jobs[j] = LocalDate(now),
                                        !.sent = end.sent,
                                        !.failed = end.failed,
                                        !.listed = end.listed]
                  /\ last_op' = Op(j, 0, TRUE, {}, 0)
                  /\ UNCHANGED completions
         [] j = "send_backup_reminders" ->
              LET end == AfterReminders(TRUE, fails)
              IN  /\ users' = end.users
                  /\ tasks' = end.tasks
                  /\ bot' = [bot EXCEPT !.jobs[j] = LocalDate(now),
                                        !.sent = end.sent,
                                        !.failed = end.failed,
                                        !.listed = end.listed]
                  /\ last_op' = Op(j, 0, TRUE, {}, 0)
                  /\ UNCHANGED completions
         [] j = "yearly_cleanup_job" ->
              LET today == Civil(LocalDate(now))
                  old == {c \in completions : c.completed_at < now - 365 * 24}
              IN  /\ completions' = IF CleanupPrunes(today)
                                    THEN completions \ old ELSE completions
                  /\ bot' = [bot EXCEPT !.jobs[j] = LocalDate(now)]
                  /\ last_op' = Op(j, 0, TRUE, {}, 0)
                  /\ UNCHANGED <<users, tasks>>
         [] j = "reset_tasks_job" ->
              LET today == DateOf(now)
                  reset_count == ResetCount(tasks, today)
              IN  /\ tasks' = IF reset_count > 0
                              THEN CommitReset(tasks, EmptyMap, ResetSet(tasks, today))
                              ELSE tasks
                  /\ bot' = [bot EXCEPT !.jobs[j] = LocalDate(now)]
                  /\ last_op' = Op(j, 0, TRUE, {}, reset_count)
                  /\ UNCHANGED <<users, completions>>

\* get_user_by_telegram_id: the ids of the rows found (one at most)
GetUserByTelegramId(telegram_id) ==
    {u \in DOMAIN users : users[u].telegram_id = telegram_id}

\* complete_task on a fresh session: the event is added and last_completed
\* is set; Task.completed is not assigned
MarkCompleted(name, chat_id, task_id) ==
    LET id == NextId({c.id : c \in completions})
        completion == CompletionRow(id, task_id, now)
    IN  /\ id <= MaxCompletions
        /\ completions' = completions \cup {completion}
        /\ tasks' = [tasks EXCEPT ![task_id].last_completed = completion.completed_at]
        /\ last_op' = Reply(name, chat_id, task_id, "done")
        /\ UNCHANGED <<bot, now, users, dirty>>

\* a handler that answers and leaves the database as it is
Answer(name, chat_id, task_id, text) ==
    /\ last_op' = Reply(name, chat_id, task_id, text)
    /\ UNCHANGED <<bot, now, users, tasks, completions, dirty>>

\* the lookup by the id alone
FindTask_AnyOwner(user, task_id) == task_id \in DOMAIN tasks

\* db.query(Task).filter(Task.id == task_id, Task.user_id == user.id).first():
\* whether the task exists and is the user's
FindTask(user, task_id) ==
    /\ task_id \in DOMAIN tasks
    /\ tasks[task_id].user_id \in user

\* the handler without the check of today's completion
AlreadyCompletedToday_Unchecked(task_id) == FALSE

\* if is_task_completed_today(db, task)
AlreadyCompletedToday(task_id) == IsTaskCompletedToday(task_id)

\* what /done <task_id> and the button complete_<task_id> both do, for the
\* chat chat_id: the user is looked up, the task is looked up among the
\* user's, a task completed today is refused, any other is completed.  The
\* button assigns task.completed = True after the commit and closes the
\* session, which drops the assignment.
MarkComplete(name, chat_id, task_id) ==
    LET user == GetUserByTelegramId(chat_id)
    IN  /\ Started
        /\ IF user = {} THEN Answer(name, chat_id, task_id, "not_registered")
           ELSE IF ~FindTask(user, task_id)
           THEN Answer(name, chat_id, task_id, "not_found")
           ELSE IF AlreadyCompletedToday(task_id)
           THEN Answer(name, chat_id, task_id, "already_done")
           ELSE MarkCompleted(name, chat_id, task_id)

DoneCommand(chat_id, task_id) == MarkComplete("done_command", chat_id, task_id)

CompleteButton(chat_id, task_id) == MarkComplete("complete_button", chat_id, task_id)

\* delete_task on a fresh session: the task goes, and its completions with it
Deleted(name, chat_id, task_id) ==
    /\ tasks' = [i \in DOMAIN tasks \ {task_id} |-> tasks[i]]
    /\ completions' = {c \in completions : c.task_id # task_id}
    /\ last_op' = Reply(name, chat_id, task_id, "deleted")
    /\ UNCHANGED <<bot, now, users, dirty>>

\* what /delete <task_id> and the button delete_<task_id> both do, for the
\* chat chat_id
DeleteRequest(name, chat_id, task_id) ==
    LET user == GetUserByTelegramId(chat_id)
    IN  /\ Started
        /\ IF user = {} THEN Answer(name, chat_id, task_id, "not_registered")
           ELSE IF ~FindTask(user, task_id)
           THEN Answer(name, chat_id, task_id, "not_found")
           ELSE Deleted(name, chat_id, task_id)

DeleteCommand(chat_id, task_id) == DeleteRequest("delete_command", chat_id, task_id)

DeleteButton(chat_id, task_id) == DeleteRequest("delete_button", chat_id, task_id)

\* while the bot runs, a day ends only after the callbacks that the job queue runs at a fixed
\* time of that day have run
AdvanceBot(hours, max_day) ==
    /\ Started
    /\ \A j \in DOMAIN bot.jobs : j = "send_backup_reminders" \/ ~JobDue(j)
    /\ Advance(hours, max_day)

BotChats == {1, 2}
BotTaskInputs == {<<"EVERYDAY", NoneStr>>, <<"MONTHLY", NoneStr>>}

\* the bot is about to start, on the last but one day of a month, on a
\* database that create_user and create_task have just written: two users,
\* and one task, or one task of each of them
InitBot ==
    /\ now = BotStartDay * 24
    /\ users = [u \in BotChats |-> UserRow(u)]
    /\ \/ \E user_id \in BotChats, in \in BotTaskInputs :
              tasks = <<TaskRow(user_id, in[1], in[2], now)>>
       \/ tasks = <<TaskRow(1, "EVERYDAY", NoneStr, now),
                     TaskRow(2, "EVERYDAY", NoneStr, now)>>
    /\ completions = {}
    /\ dirty = EmptyMap
    /\ last_op = NoOp
    /\ bot = NoBot

NextBot ==
    \/ PostInit
    \/ \E j \in JobCallbacks, fails \in SUBSET BotChats : RunJob(j, fails)
    \/ \E chat_id \in BotChats, task_id \in TaskIds : DoneCommand(chat_id, task_id)
    \/ \E chat_id \in BotChats, task_id \in TaskIds : CompleteButton(chat_id, task_id)
    \/ \E chat_id \in BotChats, task_id \in TaskIds : DeleteCommand(chat_id, task_id)
    \/ \E chat_id \in BotChats, task_id \in TaskIds : DeleteButton(chat_id, task_id)
    \/ AdvanceBot(24, MaxBotDay)

SpecBot == InitBot /\ [][NextBot]_vars

-----------------------------------------------------------------------------
(* The cleanup job around a new year: a database whose ledger holds events  *)
(* about a year old, and a clock that the job queue moves from one first of *)
(* a month, 00:00 in Yekaterinburg, to the next                             *)

\* the day number of January 1 of CleanupYear
NewYearDay ==
    CHOOSE d \in 0..(366 * (CleanupYear - 2023)) :
        Civil(d) = [year |-> CleanupYear, month |-> 1, day |-> 1]

\* December 1, January 1, February 1
CleanupDays == {NewYearDay - 31, NewYearDay, NewYearDay + 31}

\* time(0, 0, 0, tzinfo=timezone('Asia/Yekaterinburg')) of the day d
FiringTime(d) == d * 24 - YekaterinburgOffset

\* 365 days before the firing of January 1
NewYearCutoff == FiringTime(NewYearDay) - 365 * 24

\* the times of the events the ledger may hold when the bot starts: very
\* old, a day, an hour and nothing before the cutoff of January 1, an hour
\* after it
CleanupEventTimes ==
    {0, NewYearCutoff - 24, NewYearCutoff - 1, NewYearCutoff, NewYearCutoff + 1}

\* the events of task 1 at the times S, with ids in the order of the times
EventsAt(S) ==
    {CompletionRow(Cardinality({x \in S : x <= at}), 1, at) : at \in S}

\* the job queue waits for the next first of a month; the callback of this
\* one has run
NextFiring ==
    /\ \A j \in DOMAIN bot.jobs : j = "send_backup_reminders" \/ ~JobDue(j)
    /\ \E d \in CleanupDays :
          /\ FiringTime(d) > now
          /\ \A e \in CleanupDays : FiringTime(e) > now => d <= e
          /\ now' = FiringTime(d)
    /\ UNCHANGED <<bot, users, tasks, completions, dirty, last_op>>

InitCleanup ==
    /\ now = FiringTime(NewYearDay - 31)
    /\ users = [u \in {1} |-> UserRow(1)]
    /\ tasks = <<TaskRow(1, "EVERYDAY", NoneStr, 0)>>
    /\ \E S \in SUBSET CleanupEventTimes :
          /\ Cardinality(S) <= MaxCompletions
          /\ completions = EventsAt(S)
    /\ dirty = EmptyMap
    /\ last_op = NoOp
    /\ bot = [NoBot EXCEPT !.jobs = [j \in {"yearly_cleanup_job"} |-> NoneTime]]

NextCleanup ==
    \/ RunJob("yearly_cleanup_job", {})
    \/ DoneCommand(1, 1)
    \/ NextFiring

SpecCleanup == InitCleanup /\ [][NextCleanup]_vars

-----------------------------------------------------------------------------
(* Registration: start_command, together with the operations that follow   *)
(* it on a database that starts empty                                       *)

\* start_command without the lookup: create_user on every /start
StartCommand_NoLookup(chat_id) ==
    LET id == NextId(DOMAIN users)
    IN  /\ Started
        /\ users' = [i \in DOMAIN users \cup {id} |->
                        IF i \in DOMAIN users THEN users[i] ELSE UserRow(chat_id)]
        /\ last_op' = Reply("start_command", chat_id, 0, "registered")
        /\ UNCHANGED <<bot, now, tasks, completions, dirty>>

\* /start from the chat chat_id, on a fresh session: the user is looked up
\* and created when there is none
StartCommand(chat_id) ==
    LET user == GetUserByTelegramId(chat_id)
        id == NextId(DOMAIN users)
    IN  /\ Started
        /\ IF user = {}
           THEN /\ users' = [i \in DOMAIN users \cup {id} |->
                                IF i \in DOMAIN users THEN users[i]
                                ELSE UserRow(chat_id)]
                /\ last_op' = Reply("start_command", chat_id, 0, "registered")
                /\ UNCHANGED <<bot, now, tasks, completions, dirty>>
           ELSE Answer("start_command", chat_id, 0, "already_registered")

\* create_task on a fresh session, for a registered chat
AddTask(chat_id, frequency) ==
    /\ Started
    /\ dirty = EmptyMap
    /\ \E user_id \in GetUserByTelegramId(chat_id) :
            CreateTask(user_id, frequency, NoneStr)

StartChats == {1, 2}
StartFrequencies == {"EVERYDAY"}
ReminderJobs == {"send_daily_reminders", "send_backup_reminders"}

\* the bot has started on an empty database
InitStart ==
    /\ now = BotStartDay * 24
    /\ users = EmptyMap
    /\ tasks = EmptyMap
    /\ completions = {}
    /\ dirty = EmptyMap
    /\ last_op = NoOp
    /\ bot = [NoBot EXCEPT !.jobs = [j \in ScheduledJobs |-> NoneTime]]

NextStart ==
    \/ \E chat_id \in StartChats : StartCommand(chat_id)
    \/ \E chat_id \in StartChats, frequency \in StartFrequencies :
            AddTask(chat_id, frequency)
    \/ \E chat_id \in StartChats, task_id \in TaskIds : DeleteCommand(chat_id, task_id)
    \/ \E j \in ReminderJobs, fails \in SUBSET StartChats : RunJob(j, fails)
    \/ AdvanceBot(24, MaxBotDay)

SpecStart == InitStart /\ [][NextStart]_vars

-----------------------------------------------------------------------------
(* The reminders of single tasks: the callbacks that schedule_task_reminders *)
(* hands to the job queue when the bot starts                                *)

\* the callback of _make_task_reminder_callback(telegram_id, task_id): the
\* task is looked up by its id, the message goes to telegram_id when a row is
\* found whose completed is false; the session is closed without a commit
TaskReminder(telegram_id, task_id) ==
    LET task == {i \in DOMAIN tasks : i = task_id}
        sends == task # {} /\ \A i \in task : ~tasks[i].completed
    IN  /\ <<telegram_id, task_id>> \in bot.timers
        /\ last_op' = Op("task_reminder", <<telegram_id, task_id>>, sends,
                         IF sends THEN {"reminder"} ELSE {}, 0)
        /\ UNCHANGED <<bot, now, users, tasks, completions, dirty>>

\* a tasks row with its reminder_time
TimedTaskRow(user_id, reminder_time) ==
    TaskRow(user_id, "EVERYDAY", NoneStr, 0) @@ [reminder_time |-> reminder_time]

TimerChats == {1, 2}
TimerReminders == {"None", "09:00"}

\* the bot is about to start on a database that holds two users and one or
\* two tasks, with or without a reminder time
InitTimers ==
    /\ now = BotStartDay * 24
    /\ users = [u \in TimerChats |-> UserRow(u)]
    /\ \E n \in 1..MaxTasks :
          \E owner \in [1..n -> TimerChats], r \in [1..n -> TimerReminders] :
              tasks = [i \in 1..n |-> TimedTaskRow(owner[i], r[i])]
    /\ completions = {}
    /\ dirty = EmptyMap
    /\ last_op = NoOp
    /\ bot = NoBot

NextTimers ==
    \/ PostInit
    \/ \E chat_id \in TimerChats, task_id \in TaskIds : TaskReminder(chat_id, task_id)
    \/ \E chat_id \in TimerChats, task_id \in TaskIds : DoneCommand(chat_id, task_id)
    \/ \E chat_id \in TimerChats, task_id \in TaskIds : DeleteCommand(chat_id, task_id)
    \/ \E chat_id \in TimerChats : AddTask(chat_id, "EVERYDAY")
    \/ RunJob("send_daily_reminders", {})

SpecTimers == InitTimers /\ [][NextTimers]_vars

-----------------------------------------------------------------------------
(* create_task and get_tasks_by_user with the columns title and             *)
(* reminder_time, on a database that holds two users                        *)

\* reminder_time is NULL, or the keyword reminder_time is not passed
NoReminder == "None"

\* a tasks row with its title; create_task assigns no reminder_time, so the
\* column is NULL
TitledTaskRow(user_id, title, frequency, created_at) ==
    TaskRow(user_id, frequency, NoneStr, created_at)
        @@ [title |-> title, reminder_time |-> NoReminder]

\* get_tasks_by_user: the rows it returns, each with its id
GetTasksByUser(user_id) ==
    {<<i, tasks[i]>> : i \in {i \in DOMAIN tasks : tasks[i].user_id = user_id}}

\* the call create_task(db, user_id, title, frequency) of the tests, with or
\* without the keyword reminder_time: the function has no such parameter, so
\* the call with the keyword raises TypeError before anything is added
CreateTaskCall(user_id, title, frequency, reminder_time) ==
    LET id == NextId(DOMAIN tasks)
    IN  IF reminder_time # NoReminder
        THEN /\ last_op' = Op("create_task", <<user_id, title, reminder_time>>,
                              FALSE, {}, 0)
             /\ UNCHANGED <<bot, now, users, tasks, completions, dirty>>
        ELSE /\ user_id \in DOMAIN users
             /\ id <= MaxTasks
             /\ tasks' = [i \in DOMAIN tasks \cup {id} |->
                             IF i \in DOMAIN tasks THEN tasks[i]
                             ELSE TitledTaskRow(user_id, title, frequency, now)]
             /\ last_op' = Op("create_task", <<user_id, title, reminder_time>>,
                              TRUE, {}, id)
             /\ UNCHANGED <<bot, now, users, completions, dirty>>

\* the call get_tasks_by_user(db, user_id)
ListTasks(user_id) ==
    /\ last_op' = Op("get_tasks_by_user", user_id, TRUE, GetTasksByUser(user_id),
                     Cardinality(GetTasksByUser(user_id)))
    /\ UNCHANGED <<bot, now, users, tasks, completions, dirty>>

TaskOwners == {1, 2}
TaskTitles == {"Test Task", "Task with reminder"}
TaskReminders == {NoReminder, "14:30"}

InitTasks ==
    /\ now = 0
    /\ users = [u \in TaskOwners |-> UserRow(u)]
    /\ tasks = EmptyMap
    /\ completions = {}
    /\ dirty = EmptyMap
    /\ last_op = NoOp
    /\ bot = NoBot

NextTasks ==
    \/ \E user_id \in TaskOwners, title \in TaskTitles, reminder_time \in TaskReminders :
            CreateTaskCall(user_id, title, "EVERYDAY", reminder_time)
    \/ \E user_id \in TaskOwners : ListTasks(user_id)
    \/ \E task_id \in TaskIds : DeleteTask(task_id)
    \/ Advance(24, MaxDay)

SpecTasks == InitTasks /\ [][NextTasks]_vars

-----------------------------------------------------------------------------
(* The /add_task dialogue: add_task_command, the frequency, day and skip    *)
(* buttons of handle_button_click, text_message_handler.  context.user_data *)
(* is a dict per user; a key that was never set or was popped is outside    *)
(* the DOMAIN                                                               *)

\* class Frequency(Enum), as app/enums/frequency.py declares it
FrequencyMembers ==
    {"EVERYDAY", "EVERY_TWO_DAYS", "EVERY_THREE_DAYS", "WEEKLY", "MONTHLY",
     "EVERY_TWO_MONTH", "EVERY_THREE_MONTH", "EVERY_HALF_YEAR"}

\* the enum that the handlers below run against: the declared members and
\* the two that bot.py and crud.py name besides them
FrequencyEnum == FrequencyMembers \cup Frequency

\* the keyboard of add_task_command: one button per member, for freq in Frequency
FrequencyKeyboard == FrequencyEnum

UserData(chat_id) ==
    IF chat_id \in DOMAIN bot.user_data THEN bot.user_data[chat_id] ELSE EmptyMap

\* context.user_data[key] = value
Put(d, key, value) ==
    [k \in DOMAIN d \cup {key} |-> IF k = key THEN value ELSE d[k]]

\* context.user_data.pop(key, None), for each of the keys
Pop(d, keys) == [k \in DOMAIN d \ keys |-> d[k]]

\* the bot with the user's dict replaced
WithUserData(chat_id, d) ==
    [bot EXCEPT !.user_data =
        [c \in DOMAIN bot.user_data \cup {chat_id} |->
            IF c = chat_id THEN d ELSE bot.user_data[c]]]

\* the keys of the user's dict that a handler has assigned since the user's
\* most recent /add_task
Chosen(chat_id) ==
    IF chat_id \in DOMAIN bot.chosen THEN bot.chosen[chat_id] ELSE {}

\* the bot b once the keys that this handler assigns for the user are noted
Chose(b, chat_id, keys) ==
    [b EXCEPT !.chosen =
        [c \in DOMAIN bot.chosen \cup {chat_id} |->
            IF c = chat_id THEN keys ELSE bot.chosen[c]]]

\* a handler of the dialogue answers and assigns the keys `keys` of the
\* dict, which it leaves as `d`; the database is as it was
Choice(name, chat_id, input, text, d, keys) ==
    /\ bot' = Chose(WithUserData(chat_id, d), chat_id, Chosen(chat_id) \cup keys)
    /\ last_op' = Op(name, <<chat_id, input>>, TRUE, {text}, 0)
    /\ UNCHANGED <<now, users, tasks, completions, dirty>>

\* a handler of the dialogue answers and leaves the dict as `d`; the
\* database is as it was
Dialogue(name, chat_id, input, text, d) ==
    /\ bot' = WithUserData(chat_id, d)
    /\ last_op' = Op(name, <<chat_id, input>>, TRUE, {text}, 0)
    /\ UNCHANGED <<now, users, tasks, completions, dirty>>

\* /add_task <name>
AddTaskCommand(chat_id, task_name) ==
    /\ Started
    /\ bot' = Chose(WithUserData(chat_id,
                       Put(Put(UserData(chat_id), "task_name", task_name),
                           "selected_days", {})),
                   chat_id, {"task_name", "selected_days"})
    /\ last_op' = Op("add_task_command", <<chat_id, task_name>>, TRUE, FrequencyKeyboard, 0)
    /\ UNCHANGED <<now, users, tasks, completions, dirty>>

\* the lookup without the enum: every label is taken
IsMember_Any(frequency_str) == TRUE

\* Frequency[frequency_str] does not raise KeyError
IsMember(frequency_str) == frequency_str \in FrequencyEnum

\* the head of handle_button_click for the buttons of the dialogue: the user
\* must be registered and a task name must be in the dict; the answer given
\* otherwise, "" when the button is handled
ButtonRefused(chat_id, day_button) ==
    IF GetUserByTelegramId(chat_id) = {} THEN "not_registered"
    ELSE IF "task_name" \notin DOMAIN UserData(chat_id)
    THEN (IF day_button THEN "state_error" ELSE "no_task_name")
    ELSE ""

\* the button frequency_<frequency_str>
FrequencyButton(chat_id, frequency_str) ==
    LET d == UserData(chat_id)
        refused == ButtonRefused(chat_id, FALSE)
    IN  /\ Started
        /\ IF refused # "" THEN Dialogue("frequency_button", chat_id, frequency_str, refused, d)
           ELSE IF ~IsMember(frequency_str)
           THEN Dialogue("frequency_button", chat_id, frequency_str, "invalid_frequency", d)
           ELSE Choice("frequency_button", chat_id, frequency_str,
                       IF frequency_str = "SPECIFIC_DAYS" THEN "select_days" ELSE "enter_time",
                       Put(d, "frequency_enum", frequency_str), {"frequency_enum"})

\* the button day_select_<day>: the day is toggled in selected_days
DaySelectButton(chat_id, day) ==
    LET d == UserData(chat_id)
        refused == ButtonRefused(chat_id, TRUE)
        selected_days == IF "selected_days" \in DOMAIN d THEN d["selected_days"] ELSE {}
    IN  /\ Started
        /\ IF refused = "state_error"
           THEN Dialogue("day_select_button", chat_id, day, refused,
                         Pop(d, {"task_name", "selected_days"}))
           ELSE IF refused # "" THEN Dialogue("day_select_button", chat_id, day, refused, d)
           ELSE IF day \notin 1..Len(DAYS_OF_WEEK)
           THEN Dialogue("day_select_button", chat_id, day, "invalid_day", d)
           ELSE Choice("day_select_button", chat_id, day, "keyboard",
                       Put(d, "selected_days",
                           IF day \in selected_days THEN selected_days \ {day}
                           ELSE selected_days \cup {day}),
                       {"selected_days"})

\* the button day_done: the selection is joined into days_of_week
DayDoneButton(chat_id) ==
    LET d == UserData(chat_id)
        refused == ButtonRefused(chat_id, TRUE)
        selected_days == IF "selected_days" \in DOMAIN d THEN d["selected_days"] ELSE {}
    IN  /\ Started
        /\ IF refused = "state_error"
           THEN Dialogue("day_done_button", chat_id, 0, refused,
                         Pop(d, {"task_name", "selected_days"}))
           ELSE IF refused # "" THEN Dialogue("day_done_button", chat_id, 0, refused, d)
           ELSE IF selected_days = {}
           THEN Dialogue("day_done_button", chat_id, 0, "no_days_selected", d)
           ELSE Choice("day_done_button", chat_id, 0, "enter_time",
                       Put(d, "days_of_week", JoinDays(selected_days)),
                       {"days_of_week"})

\* the button skip_reminder_time
SkipButton(chat_id) ==
    LET d == UserData(chat_id)
        refused == ButtonRefused(chat_id, FALSE)
    IN  /\ Started
        /\ IF refused # "" THEN Dialogue("skip_button", chat_id, 0, refused, d)
           ELSE Choice("skip_button", chat_id, 0, "enter_points",
                       Put(d, "awaiting_points", TRUE), {"awaiting_points"})

\* int(text) succeeds and is not negative
IsPoints(text) == text = "5"

\* re.match(r"^(\d{1,2}):(\d{2})$", text)
IsTime(text) == text = "09:30"

\* the task is saved: create_task with the dict's frequency_enum,
\* days_of_week and reminder_time (None when the key is absent), then the
\* keys are popped, reminder_time excepted.
\* The INSERT fails when the name or the frequency is None (nullable=False):
\* the exception leaves the handler before the pops.
SaveTask(chat_id, text) ==
    LET d == UserData(chat_id)
        id == NextId(DOMAIN tasks)
        days_of_week == IF "days_of_week" \in DOMAIN d THEN d["days_of_week"] ELSE NoneStr
        reminder_time == IF "reminder_time" \in DOMAIN d THEN d["reminder_time"] ELSE "None"
    IN  IF ~({"task_name", "frequency_enum"} \subseteq DOMAIN d)
        THEN /\ last_op' = Op("text_message", <<chat_id, text>>, FALSE, {"error"}, 0)
             /\ UNCHANGED <<bot, now, users, tasks, completions, dirty>>
        ELSE /\ id <= MaxTasks
             /\ \E user_id \in GetUserByTelegramId(chat_id) :
                  tasks' = [i \in DOMAIN tasks \cup {id} |->
                               IF i \in DOMAIN tasks THEN tasks[i]
                               ELSE TaskRow(user_id, d["frequency_enum"], days_of_week, now)
                                        @@ [reminder_time |-> reminder_time]]
             /\ bot' = WithUserData(chat_id,
                          Pop(d, {"task_name", "frequency_enum", "selected_days",
                                  "days_of_week", "awaiting_points"}))
             /\ last_op' = Op("text_message", <<chat_id, text>>, TRUE, {"task_added"}, id)
             /\ UNCHANGED <<now, users, completions, dirty>>

\* a text that is not a command
TextMessage(chat_id, text) ==
    LET d == UserData(chat_id)
    IN  /\ Started
        /\ IF "awaiting_points" \in DOMAIN d
           THEN IF ~IsPoints(text)
                THEN Dialogue("text_message", chat_id, text, "invalid_points", d)
                ELSE IF GetUserByTelegramId(chat_id) = {}
                THEN Dialogue("text_message", chat_id, text, "not_registered", d)
                ELSE SaveTask(chat_id, text)
           ELSE IF {"frequency_enum", "task_name"} \subseteq DOMAIN d
           THEN IF IsTime(text)
                THEN Choice("text_message", chat_id, text, "enter_points",
                            Put(Put(d, "reminder_time", text), "awaiting_points", TRUE),
                            {"reminder_time", "awaiting_points"})
                ELSE Dialogue("text_message", chat_id, text, "invalid_time", d)
           ELSE /\ last_op' = Op("text_message", <<chat_id, text>>, TRUE, {}, 0)
                /\ UNCHANGED <<bot, now, users, tasks, completions, dirty>>

WizardChats == {1}
WizardNames == {"t"}
WizardLabels == {"EVERYDAY", "SPECIFIC_DAYS", "EVERY_TWO_DAYS", "FORTNIGHTLY"}
WizardDays == {0, 1}
WizardTexts == {"5", "09:30", "x"}

\* the bot has started on a database that holds one registered user
InitWizard ==
    /\ now = 0
    /\ users = [u \in WizardChats |-> UserRow(u)]
    /\ tasks = EmptyMap
    /\ completions = {}
    /\ dirty = EmptyMap
    /\ last_op = NoOp
    /\ bot = [NoBot EXCEPT !.jobs = [j \in ScheduledJobs |-> NoneTime]]

NextWizard ==
    \/ \E chat_id \in WizardChats, task_name \in WizardNames : AddTaskCommand(chat_id, task_name)
    \/ \E chat_id \in WizardChats, frequency_str \in WizardLabels : FrequencyButton(chat_id, frequency_str)
    \/ \E chat_id \in WizardChats, day \in WizardDays : DaySelectButton(chat_id, day)
    \/ \E chat_id \in WizardChats : DayDoneButton(chat_id)
    \/ \E chat_id \in WizardChats : SkipButton(chat_id)
    \/ \E chat_id \in WizardChats, text \in WizardTexts : TextMessage(chat_id, text)

SpecWizard == InitWizard /\ [][NextWizard]_vars

-----------------------------------------------------------------------------
(* Properties *)

\* the call made last was get_tasks_due_today(user_id), and no time has passed
Asked(user_id) ==
    /\ last_op.name = "get_tasks_due_today"
    /\ last_op.arg = user_id
    /\ last_op.at = now

ReturnedIds == {r.id : r \in last_op.ret}

HasCompletion(task_id) == \E c \in completions : c.task_id = task_id

\* a completion event of the task whose timestamp lies within day d
CompletedOnDay(task_id, d) ==
    \E c \in completions :
        c.task_id = task_id /\ d * 24 <= c.completed_at /\ c.completed_at < (d + 1) * 24

\* this step is a call complete_task(task_id) that found the task
CompleteStep(task_id) ==
    /\ last_op'.name = "complete_task"
    /\ last_op'.arg = task_id
    /\ last_op'.ok
    /\ completions' # completions

\* C1: complete_task on an existing task inserts exactly one completion event
\* for it, stamped with the current time, and in the same commit sets the
\* task's stored completed flag to true and last_completed to that timestamp.
C1_CompleteSetsFlag ==
    [][\A t \in TaskIds : CompleteStep(t) =>
          \E c \in completions' \ completions :
              /\ completions' = completions \cup {c}
              /\ c.task_id = t
              /\ c.completed_at = now
              /\ tasks'[t].last_completed = c.completed_at
              /\ tasks'[t].completed = TRUE]_vars

\* C2: is_task_completed_today(t) is false while the ledger holds no
\* completion of t, and after complete_task(t), with no other call in
\* between, it is true at every instant of the same calendar day.
C2_RoundTrip ==
    \A t \in DOMAIN tasks :
        /\ ~HasCompletion(t) => ~IsTaskCompletedToday(t)
        /\ (/\ last_op.name = "complete_task"
            /\ last_op.arg = t
            /\ last_op.ok
            /\ DateOf(now) = DateOf(last_op.at)) => IsTaskCompletedToday(t)

\* a task completed earlier the same day, asked about later that day
C2_Witness ==
    \E t \in DOMAIN tasks :
        /\ last_op.name = "complete_task" /\ last_op.arg = t /\ last_op.ok
        /\ last_op.at < now
        /\ DateOf(now) = DateOf(last_op.at)
        /\ IsTaskCompletedToday(t)

\* the instants the ledger is asked about: the first and the last hour of a day
TargetDates == {d * 24 + h : d \in 0..(MaxDay + 1), h \in {0, 23}}

\* C3: task t is satisfied on date D iff the ledger holds a completion event
\* of t whose timestamp falls on D; an event of another day, or of another
\* task, never satisfies it.
C3_DayGranularity ==
    \A t \in DOMAIN tasks, target \in TargetDates :
        (GetTaskCompletionForDay(t, target) # {}) <=> CompletedOnDay(t, target \div 24)

\* a WEEKLY or MONTHLY task completed on an earlier day of the same week and
\* month, another task completed today, and the first not satisfied today
C3_Witness ==
    \E t \in DOMAIN tasks, o \in DOMAIN tasks :
        /\ t # o
        /\ tasks[t].frequency \in {"WEEKLY", "MONTHLY"}
        /\ \E c \in completions :
              /\ c.task_id = t
              /\ DateOf(c.completed_at) < DateOf(now)
              /\ DateOf(now) - DateOf(c.completed_at) < 7 - PyWeekday(DateOf(c.completed_at))
              /\ Civil(DateOf(c.completed_at)).month = Civil(DateOf(now)).month
        /\ CompletedOnDay(o, DateOf(now))
        /\ ~IsTaskCompletedToday(t)

\* C4: no task has its stored completed flag true while the ledger holds no
\* completion event for it, and every task with a completion event dated
\* today has its stored completed flag true.
C4_FlagRecomputable ==
    \A t \in DOMAIN tasks :
        /\ tasks[t].completed => HasCompletion(t)
        /\ CompletedOnDay(t, DateOf(now)) => tasks[t].completed

WeekdaySet(days_of_week) ==
    IF days_of_week = NoneStr THEN {}
    ELSE CHOOSE S \in SUBSET (1..Len(DAYS_OF_WEEK)) : JoinDays(S) = days_of_week

IsDueOn(t, D) ==
    CASE t.frequency \in {"ONCE", "EVERYDAY"} -> TRUE
      [] t.frequency = "WEEKLY" -> (D - DateOf(t.created_at)) % 7 = 0
      [] t.frequency = "MONTHLY" -> Civil(D).day = Civil(DateOf(t.created_at)).day
      [] t.frequency = "SPECIFIC_DAYS" -> (D % 7) + 1 \in WeekdaySet(t.days_of_week)

SweepStep == last_op'.name = "reset_recurring_tasks"

\* the call made last was reset_recurring_tasks, now, and it returned n
Swept(n) ==
    /\ last_op.name = "reset_recurring_tasks"
    /\ last_op.at = now
    /\ last_op.n = n

\* a task of frequency f whose stored flag is true and that has a last_completed
Flagged(t, f) ==
    /\ tasks[t].completed
    /\ tasks[t].frequency = f
    /\ tasks[t].last_completed # NoneTime

\* the first instant of the day that `now` falls on
Midnight == (now \div 24) * 24

ShouldResetOn(t, D) ==
    LET L == DateOf(t.last_completed)
    IN  CASE t.frequency = "ONCE" -> FALSE
          [] t.last_completed = NoneTime -> TRUE
          [] t.frequency = "EVERYDAY" -> L < D
          [] t.frequency = "WEEKLY" -> D - L >= 7
          [] t.frequency = "MONTHLY" ->
                 Civil(L).month # Civil(D).month \/ Civil(L).year # Civil(D).year
          [] t.frequency = "SPECIFIC_DAYS" ->
                 L < D /\ (D % 7) + 1 \in WeekdaySet(t.days_of_week)

DayEnds == Started /\ DateOf(now') > DateOf(now)

\* the flagged recurring tasks that the sweep of the day D would clear
ResetPending(D) == ResetSet(tasks, D)

\* C19: while the bot runs, the daily reset sweep is one of the callbacks of
\* its job queue and has run on each civil day by the time the day ends, so
\* that no flagged recurring task whose reset condition held on that day is
\* still flagged when the day ends, whatever the users did.
C19_DailyResetFires ==
    [][DayEnds =>
          /\ "reset_tasks_job" \in DOMAIN bot.jobs
          /\ bot.jobs["reset_tasks_job"] = LocalDate(now)
          /\ ResetPending(DateOf(now)) = {}]_vars

\* this step is the handling of a request of chat_id to mark task_id complete
MarkStep(chat_id, task_id) ==
    /\ last_op' # last_op
    /\ last_op'.name \in {"done_command", "complete_button"}
    /\ last_op'.arg = <<chat_id, task_id>>

\* the completion events of the task dated the day d
EventsOnDay(ledger, task_id, d) ==
    {c \in ledger : c.task_id = task_id /\ DateOf(c.completed_at) = d}

\* C20: when a user asks, through /done or the complete button, to mark
\* complete a task of theirs that already has a completion event dated today,
\* the answer is "already done" and no table changes: no event is added, and
\* the task's completed flag and last_completed stay as they are.  So after
\* every step of the bot the ledger holds at most one event per task and day.
C20_AlreadyDoneNoChange ==
    [][/\ \A chat_id \in BotChats, t \in TaskIds :
            (/\ MarkStep(chat_id, t)
             /\ t \in DOMAIN tasks
             /\ tasks[t].user_id \in GetUserByTelegramId(chat_id)
             /\ CompletedOnDay(t, DateOf(now)))
            => /\ last_op'.ret = {"already_done"}
               /\ UNCHANGED <<users, tasks, completions>>
       /\ \A t \in TaskIds, d \in 0..MaxBotDay :
            Cardinality(EventsOnDay(completions', t, d)) <= 1]_vars

\* the button pressed again on the day of the task's second completion
C20_Witness ==
    /\ last_op.name = "complete_button"
    /\ last_op.at = now
    /\ last_op.ret = {"already_done"}
    /\ CompletedOnDay(last_op.arg[2], DateOf(now))
    /\ Cardinality(completions) = 2

\* this step is the handling of a request of chat_id about task_id, by one
\* of the handlers that mark a task complete or delete it
RequestStep(chat_id, task_id) ==
    /\ last_op' # last_op
    /\ last_op'.name \in {"done_command", "complete_button",
                          "delete_command", "delete_button"}
    /\ last_op'.arg = <<chat_id, task_id>>

\* C21: a request of a registered user to mark complete or to delete, by
\* command or by button, a task id that does not exist or is another user's
\* is answered "not found" and changes no table: no task is deleted, no
\* completion event is added, every task keeps its flag and last_completed.
C21_NotFoundRejected ==
    [][\A chat_id \in BotChats, t \in TaskIds :
          (/\ RequestStep(chat_id, t)
           /\ GetUserByTelegramId(chat_id) # {}
           /\ ~(t \in DOMAIN tasks /\ tasks[t].user_id \in GetUserByTelegramId(chat_id)))
          => /\ last_op'.ret = {"not_found"}
             /\ UNCHANGED <<users, tasks, completions>>]_vars

\* the delete button pressed by a user on another user's completed task
C21_Witness ==
    /\ last_op.name = "delete_button"
    /\ last_op.at = now
    /\ last_op.ret = {"not_found"}
    /\ last_op.arg[2] \in DOMAIN tasks
    /\ tasks[last_op.arg[2]].user_id \notin GetUserByTelegramId(last_op.arg[1])
    /\ tasks[last_op.arg[2]].last_completed # NoneTime
    /\ HasCompletion(last_op.arg[2])

FrequencyStep(chat_id, frequency_str) ==
    /\ last_op' # last_op
    /\ last_op'.name = "frequency_button"
    /\ last_op'.arg = <<chat_id, frequency_str>>

\* C23: a frequency choice whose label is not one of ONCE, EVERYDAY, WEEKLY,
\* MONTHLY, SPECIFIC_DAYS is answered with an error: no task is created and
\* the user's dialogue state records no frequency (it stays as it was).
C23_InvalidFrequencyRejected ==
    [][\A chat_id \in WizardChats, frequency_str \in WizardLabels \ Frequency :
          FrequencyStep(chat_id, frequency_str)
          => /\ last_op'.ret \subseteq {"invalid_frequency", "no_task_name", "not_registered"}
             /\ UserData(chat_id)' = UserData(chat_id)
             /\ UNCHANGED tasks]_vars

\* the members that the filter of get_tasks_due_today names
DueTodayNames == {"EVERYDAY", "SPECIFIC_DAYS", "WEEKLY", "MONTHLY"}

\* the members that reset_recurring_tasks names: the one its query leaves
\* out, and the four its branches decide
ResetNames == {"ONCE", "EVERYDAY", "WEEKLY", "MONTHLY", "SPECIFIC_DAYS"}

\* C24: the frequency of every stored task, and every frequency that the
\* keyboard of /add_task offers, is one of ONCE, EVERYDAY, WEEKLY, MONTHLY,
\* SPECIFIC_DAYS; these five are the members that the enum declares; every
\* member that get_tasks_due_today and reset_recurring_tasks name is a
\* declared member, and each of the five is handled by both.
C24_ClosedFrequencySet ==
    /\ \A i \in DOMAIN tasks : tasks[i].frequency \in Frequency
    /\ last_op.name = "add_task_command" => last_op.ret \subseteq Frequency
    /\ FrequencyMembers = Frequency
    /\ DueTodayNames \cup ResetNames \subseteq FrequencyMembers
    /\ Frequency \subseteq DueTodayNames \cap ResetNames

\* this step is a call delete_old_completions(days_to_keep)
DeleteOldStep(days_to_keep) ==
    /\ last_op' # last_op
    /\ last_op'.name = "delete_old_completions"
    /\ last_op'.arg = days_to_keep

\* C25: delete_old_completions(days) deletes exactly the completion events
\* stamped strictly before now minus days, returns their number and keeps
\* every other event; no row of tasks (completed and last_completed
\* included) and no row of users changes.
C25_DeleteOldExact ==
    [][\A days_to_keep \in LedgerRetentionDays :
          DeleteOldStep(days_to_keep)
          => LET old == {c \in completions : c.completed_at < now - days_to_keep * 24}
             IN  /\ completions' = completions \ old
                 /\ last_op'.n = Cardinality(old)
                 /\ UNCHANGED <<tasks, users>>]_vars

\* a call with one day of retention that deleted one event and kept the
\* event stamped exactly one day before it
C25_Witness ==
    /\ last_op.name = "delete_old_completions"
    /\ last_op.arg = 1
    /\ last_op.at = now
    /\ last_op.n = 1
    /\ \E c \in completions : c.completed_at = now - 24
    /\ \E i \in DOMAIN tasks : tasks[i].last_completed # NoneTime

\* this step is a call get_task_completions(task_id, limit)
HistoryStep(task_id, limit) ==
    /\ last_op'.name = "get_task_completions"
    /\ last_op'.arg = <<task_id, limit>>
    /\ last_op' # last_op

EventsOf(task_id) == {c \in completions : c.task_id = task_id}

\* C26: get_task_completions(t, limit) returns completion events of t only,
\* each once, most recent first, as many as t has but at most limit, and
\* none that it leaves out is newer than one it returns; so two completions
\* of t on two different days are both returned.  A later call
\* delete_old_completions(0), made after the instants of t's events,
\* leaves no event of t.
C26_HistoryNewestFirst ==
    [][/\ \A t \in TaskIds, limit \in HistoryLimits :
            HistoryStep(t, limit)
            => LET ret == last_op'.ret
               IN  /\ \A i \in DOMAIN ret : ret[i] \in EventsOf(t)
                   /\ \A i, j \in DOMAIN ret : i # j => ret[i] # ret[j]
                   /\ \A i, j \in DOMAIN ret :
                          i < j => ret[i].completed_at >= ret[j].completed_at
                   /\ Len(ret) = Min(limit, Cardinality(EventsOf(t)))
                   /\ \A c \in EventsOf(t), i \in DOMAIN ret :
                          (\A j \in DOMAIN ret : ret[j] # c)
                              => c.completed_at <= ret[i].completed_at
       /\ \A t \in TaskIds :
            (/\ DeleteOldStep(0)
             /\ \A c \in EventsOf(t) : c.completed_at < now)
            => EventsOf(t)' = {}]_vars

\* the history of a task completed on two different days, read in full
C26_Witness ==
    /\ last_op.name = "get_task_completions"
    /\ last_op.at = now
    /\ Len(last_op.ret) = 2
    /\ DateOf(last_op.ret[1].completed_at) > DateOf(last_op.ret[2].completed_at)

\* this step is a call delete_task(task_id) that found the task
DeleteStep(task_id) ==
    /\ last_op' # last_op
    /\ last_op'.name = "delete_task"
    /\ last_op'.arg = task_id
    /\ last_op'.ok

\* C27: after delete_task(t) the task is gone and no completion event
\* refers to t, while every other task's row and completion events are as
\* before; and after every step each completion event refers to a task that
\* exists.
C27_DeleteCascades ==
    [][/\ \A t \in TaskIds :
            DeleteStep(t)
            => /\ DOMAIN tasks' = DOMAIN tasks \ {t}
               /\ EventsOf(t)' = {}
               /\ \A o \in DOMAIN tasks \ {t} :
                      tasks'[o] = tasks[o] /\ EventsOf(o)' = EventsOf(o)
       /\ \A c \in completions' : c.task_id \in DOMAIN tasks']_vars

\* a task was deleted whose completion had the id 1; the other task and its
\* completion, the second one made, remain
C27_Witness ==
    /\ last_op.name = "delete_task"
    /\ last_op.ok
    /\ last_op.at = now
    /\ last_op.arg \notin DOMAIN tasks
    /\ DOMAIN tasks # {}
    /\ completions # {}
    /\ \A c \in completions : c.id = 2

\* this step is a run of the reminder job j
ReminderStep(j) ==
    /\ last_op' # last_op
    /\ last_op'.name = j

\* the backup job passes over the user: notified, and on today's local date
NotifiedToday(user_id) ==
    /\ users[user_id].last_notified # NoneTime
    /\ LocalDate(users[user_id].last_notified) = LocalDate(now)

\* the job j reaches the part of its loop that reads the user's tasks
Attempted(j, user_id) ==
    j = "send_daily_reminders" \/ ~NotifiedToday(user_id)

\* the user's tasks due today that are not completed today
IncompleteToday(user_id) == {r \in DueToday(user_id) : ~r.completed}

C28_NotifiedUnlessSendFailed ==
    [][\A j \in {"send_daily_reminders", "send_backup_reminders"} :
          ReminderStep(j)
          => \A u \in DOMAIN users :
                 /\ u \in bot'.sent => users'[u].last_notified = now
                 /\ Attempted(j, u) /\ IncompleteToday(u) = {}
                        => users'[u].last_notified = now
                 /\ u \in bot'.failed
                        => users'[u].last_notified = users[u].last_notified
                 /\ Attempted(j, u) /\ IncompleteToday(u) # {}
                        => u \in bot'.sent \cup bot'.failed]_vars

\* a reminder job has just sent one user their message and failed to send
\* the other's: the first is stamped with the time of the job, the second
\* is not
C28_SentAndFailed ==
    /\ last_op.name \in {"send_daily_reminders", "send_backup_reminders"}
    /\ last_op.at = now
    /\ \E u \in bot.sent : users[u].last_notified = now
    /\ \E u \in bot.failed : users[u].last_notified # now

\* the rows of the user's tasks
TasksOf(user_id) ==
    {<<i, tasks[i]>> : i \in {i \in DOMAIN tasks : tasks[i].user_id = user_id}}

\* the backup job's rule (C29): a backup run sends a user who is notified on
\* today's date no message and leaves their row and their tasks as they
\* are; every other user is processed: a message is sent or fails, or there
\* is nothing to send and the user is stamped.
C29_BackupSkipsNotified ==
    [][ReminderStep("send_backup_reminders")
       => \A u \in DOMAIN users :
              /\ NotifiedToday(u)
                    => /\ u \notin bot'.sent \cup bot'.failed
                       /\ users'[u] = users[u]
                       /\ TasksOf(u)' = TasksOf(u)
              /\ ~NotifiedToday(u)
                    => IF IncompleteToday(u) = {}
                       THEN users'[u].last_notified = now
                       ELSE u \in bot'.sent \cup bot'.failed]_vars

\* the reminder job that ran last, on today's date, reached the user: it
\* tried to send them a message or stamped them
HandledToday(user_id) ==
    /\ last_op.name \in {"send_daily_reminders", "send_backup_reminders"}
    /\ LocalDate(last_op.at) = LocalDate(now)
    /\ \/ user_id \in bot.failed \cup bot.sent
       \/ users[user_id].last_notified = last_op.at

Processed(j, user_id) ==
    \/ ~Attempted(j, user_id)
    \/ user_id \in bot'.sent \cup bot'.failed
    \/ IncompleteToday(user_id) = {} /\ users'[user_id].last_notified = now

\* the sweeps go on after a failure (C30): in a reminder job in which the
\* send to some user failed, every user is still dealt with, and a user
\* after the failing one is sent their message when it can be delivered.
C30_SweepContinues ==
    [][\A j \in {"send_daily_reminders", "send_backup_reminders"} :
          ReminderStep(j) /\ bot'.failed # {}
          => \A u \in DOMAIN users : Processed(j, u)]_vars

C30_SentAfterFailure ==
    /\ last_op.name \in {"send_daily_reminders", "send_backup_reminders"}
    /\ last_op.at = now
    /\ 1 \in bot.failed
    /\ 2 \in bot.sent

\* this step is a /start from the chat chat_id
StartStep(chat_id) ==
    /\ last_op' # last_op
    /\ last_op'.name = "start_command"
    /\ last_op'.arg[1] = chat_id

\* C31: no step removes a user row or changes its chat id; a /start from a
\* chat without a row adds exactly one row, for that chat, and a /start from
\* a chat with a row changes nothing; and after every step
\* get_user_by_telegram_id finds at most one row for a chat, the same row it
\* found before if it found one.
C31_RegistrationIdempotent ==
    [][/\ \A u \in DOMAIN users :
              u \in DOMAIN users' /\ users'[u].telegram_id = users[u].telegram_id
       /\ \A chat_id \in StartChats :
              /\ Cardinality(GetUserByTelegramId(chat_id)') <= 1
              /\ GetUserByTelegramId(chat_id) # {}
                    => GetUserByTelegramId(chat_id)' = GetUserByTelegramId(chat_id)
              /\ StartStep(chat_id)
                    => /\ GetUserByTelegramId(chat_id)' # {}
                       /\ IF GetUserByTelegramId(chat_id) = {}
                          THEN DOMAIN users' \ DOMAIN users
                                   = GetUserByTelegramId(chat_id)'
                          ELSE UNCHANGED <<users, tasks, completions>>]_vars

\* both chats are registered, one of them has been stamped by a reminder
\* job and owns a task, and a chat that was registered has just sent /start
\* again
C31_Witness ==
    /\ last_op.name = "start_command"
    /\ last_op.ret = {"already_registered"}
    /\ last_op.at = now
    /\ Cardinality(DOMAIN users) = 2
    /\ \A chat_id \in StartChats : Cardinality(GetUserByTelegramId(chat_id)) = 1
    /\ \E u \in DOMAIN users : users[u].last_notified # NoneTime
    /\ tasks # EmptyMap

\* this step is the call create_task(db, user_id, title, frequency) with the
\* reminder time reminder_time
CreateCall(user_id, title, reminder_time) ==
    /\ last_op' # last_op
    /\ last_op'.name = "create_task"
    /\ last_op'.arg = <<user_id, title, reminder_time>>

\* after the call, get_tasks_by_user returns for the user exactly one new
\* row, with the title and the reminder time of the call, and does not
\* return it for the other users
ListedOnce(user_id, title, reminder_time) ==
    \E id \in DOMAIN tasks' \ DOMAIN tasks :
        /\ DOMAIN tasks' = DOMAIN tasks \cup {id}
        /\ Cardinality({x \in GetTasksByUser(user_id)' : x[1] = id}) = 1
        /\ tasks'[id].title = title
        /\ tasks'[id].reminder_time = reminder_time
        /\ \A other \in DOMAIN users \ {user_id} :
               \A x \in GetTasksByUser(other)' : x[1] # id

\* C32: a task created with create_task for a user, with a title, a
\* frequency and an optional reminder time, is afterwards returned by
\* get_tasks_by_user for that user exactly once, with the same title and
\* the same reminder time, and for no other user.
C32_CreatedIsListed ==
    [][\A user_id \in TaskOwners, title \in TaskTitles, reminder_time \in TaskReminders :
          CreateCall(user_id, title, reminder_time)
          => ListedOnce(user_id, title, reminder_time)]_vars

\* create_task without a reminder time (C32): the task is afterwards
\* returned for its user exactly once, with its title and no reminder time,
\* and for no other user.
C32_CreatedWithoutReminder ==
    [][\A user_id \in TaskOwners, title \in TaskTitles :
          CreateCall(user_id, title, NoReminder)
          => ListedOnce(user_id, title, NoReminder)]_vars

\* the timestamp of the task's newest completion event
NewestEvent(task_id) ==
    SetMax({c.completed_at : c \in EventsOf(task_id)})

\* C33: in every committed state a task with at least one completion event
\* has last_completed equal to the timestamp of its newest event; and a step
\* adds an event for a task exactly when it sets the task's last_completed,
\* to the timestamp of that event.
C33_CompletionAtomic ==
    /\ [](\A t \in DOMAIN tasks :
             EventsOf(t) # {} => tasks[t].last_completed = NewestEvent(t))
    /\ [][\A t \in DOMAIN tasks \cap DOMAIN tasks' :
             /\ tasks'[t].last_completed # tasks[t].last_completed
                   => \E c \in EventsOf(t)' \ EventsOf(t) :
                          c.completed_at = tasks'[t].last_completed
             /\ EventsOf(t)' \ EventsOf(t) # {}
                   => /\ Cardinality(EventsOf(t)' \ EventsOf(t)) = 1
                      /\ tasks'[t].last_completed = NewestEvent(t)']_vars

\* a task completed at two different times: its last_completed is the later
\* of the two
C33_Witness ==
    /\ last_op.name = "complete_task"
    /\ last_op.ok
    /\ last_op.at = now
    /\ \E t \in DOMAIN tasks :
           /\ t = last_op.arg
           /\ \E c1, c2 \in EventsOf(t) : c1.completed_at < c2.completed_at
           /\ tasks[t].last_completed = now

\* this step is a call get_tasks_due_today(db, user_id)
DueTodayStep(user_id) ==
    /\ last_op' # last_op
    /\ last_op'.name = "get_tasks_due_today"
    /\ last_op'.arg = user_id

\* the call before this step was get_tasks_due_today for the same user, on
\* today's date
CalledToday(user_id) ==
    /\ last_op.name = "get_tasks_due_today"
    /\ last_op.arg = user_id
    /\ DateOf(last_op.at) = DateOf(now)

C34_QueryWritesNothingItself ==
    [][\A user_id \in UserIds :
          DueTodayStep(user_id)
          => /\ UNCHANGED <<tasks, completions>>
             /\ CalledToday(user_id) => last_op'.ret = last_op.ret]_vars

\* the tasks that the message of the last reminder job to the user names
ListedTo(user_id) == {p[2] : p \in {q \in bot.listed : q[1] = user_id}}

CleanupStep ==
    /\ last_op' # last_op
    /\ last_op'.name = "yearly_cleanup_job"

\* C36: the cleanup job runs on the first day of a month of the local
\* calendar; when that day is January 1 it removes the completion events
\* older than 365 days and no other, on every other first of a month it
\* leaves the ledger as it is; users and tasks it never changes.
C36_CleanupOnNewYearOnly ==
    [][CleanupStep
       => LET today == Civil(LocalDate(now))
          IN  /\ today.day = 1
              /\ completions' =
                    IF today.month = 1
                    THEN {c \in completions : c.completed_at >= now - 365 * 24}
                    ELSE completions
              /\ UNCHANGED <<users, tasks>>]_vars

\* the job has run on January 1, local time, while the UTC date is still
\* December 31: the event of exactly 365 days ago is kept and the older
\* event, which the firing of December 1 had left in place, is gone
C36_Witness ==
    /\ last_op.name = "yearly_cleanup_job"
    /\ last_op.at = now
    /\ Civil(LocalDate(now)).month = 1
    /\ Civil(DateOf(now)).month = 12
    /\ \E c \in completions : c.id = 2 /\ c.completed_at = now - 365 * 24
    /\ ~ \E c \in completions : c.id = 1

\* the callback of the reminder of the task runs for the chat
TimerStep(telegram_id, task_id) ==
    /\ last_op' # last_op
    /\ last_op'.name = "task_reminder"
    /\ last_op'.arg = <<telegram_id, task_id>>

C37_TimerChecksFlag ==
    [][\A p \in bot.timers :
          TimerStep(p[1], p[2])
          => /\ UNCHANGED <<users, tasks, completions, bot>>
             /\ last_op'.ret # {}
                   => /\ p[2] \in DOMAIN tasks
                      /\ ~tasks[p[2]].completed]_vars

\* text_message_handler creates a task for the chat
SaveStep(chat_id) ==
    /\ last_op' # last_op
    /\ last_op'.name = "text_message"
    /\ last_op'.ret = {"task_added"}
    /\ last_op'.arg[1] = chat_id

C38_NameOfCurrentRun ==
    [][\A chat_id \in WizardChats :
          SaveStep(chat_id)
          => /\ "task_name" \in Chosen(chat_id) \cap DOMAIN UserData(chat_id)
             /\ "frequency_enum" \in DOMAIN UserData(chat_id)
             /\ tasks'[last_op'.n].frequency = UserData(chat_id)["frequency_enum"]]_vars

=============================================================================
